---- MODULE Spec2Model ----
(***************************************************************************)
(* Model of the routes of the BC dashboard backend                         *)
(* (dashboard_backend/routes) and of the products screen of its frontend   *)
(* (dashboard_frontend/src/screens/products_screen.js):                    *)
(*   get_products_comparison.js  period resolution, the joined             *)
(*                               current-vs-snapshot query, the response   *)
(*                               mapping and the aggregate rollup;         *)
(*   get_brands.js               the brand filter options;                 *)
(*   get_product_details.js      the single-product deep fetch;            *)
(*   get_products.js             the plain listing;                        *)
(*   products_screen.js          loading and reloading the products, the   *)
(*                               error state and the recomputed stats.     *)
(* A handler is one action: it reads the tables, issues its queries in the *)
(* order of the code and sends one response.  On the screen an action is   *)
(* a handler or an effect up to its await, or the rest of loadProducts     *)
(* once the API has answered.                                              *)
(*                                                                         *)
(* Conventions                                                             *)
(*   - SQL NULL / JS null is Null (the empty tuple); a present value v is  *)
(*     Some(v).  Cells of the database tables are such options.            *)
(*   - money columns (numeric) are integers in pence; avg_gross_margin is  *)
(*     an integer number of percent points.                                *)
(*   - a JS number that results from a division is an exact rational       *)
(*     <<n, d>> in lowest terms with d > 0 (floating point rounding is not *)
(*     modelled).                                                          *)
(*   - a year_week 'YYYY-Wdd' is <<YYYY, d, d>>: the year and the two      *)
(*     characters of the week; the SQL ordering of the strings is the      *)
(*     lexicographic ordering of these tuples.                             *)
(***************************************************************************)
EXTENDS Integers, Sequences, FiniteSets, TLC

\* ------------------------------------------------------------------ bounds
\* number of product groups (groupid values) in the store
NumGroups == 2
\* largest number of rows in groupid_performance_week
MaxSnapshots == 2

Groups == 1..NumGroups

\* ------------------------------------------------------------- null, option
Null == <<>>
Some(x) == <<x>>
Val(o) == o[1]

\* JS truthiness of a string-or-undefined request field
Truthy(o) == o # Null /\ o # Some("")

\* JS `x || 0` on a number or null, and `x ? parseFloat(x) : 0` on a numeric
\* column of the driver (a string or null): null becomes 0
OrZero(o) == IF o = Null THEN 0 ELSE Val(o)

\* --------------------------------------------------------------- rationals
Abs(n) == IF n < 0 THEN -n ELSE n

RECURSIVE Gcd(_, _)
Gcd(a, b) == IF b = 0 THEN a ELSE Gcd(b, a % b)

\* n / d in lowest terms, d # 0
Rat(n, d) ==
    LET g == Gcd(Abs(n), Abs(d))
        s == IF d < 0 THEN -1 ELSE 1
    IN  <<(s * n) \div g, (s * d) \div g>>

RatInt(n) == <<n, 1>>
RatSub(a, b) == Rat(a[1] * b[2] - b[1] * a[2], a[2] * b[2])
\* (a / b) * 100, b # 0
RatPercent(a, b) == Rat(a[1] * b[2] * 100, a[2] * b[1])
RatIsZero(a) == a[1] = 0

\* PostgreSQL ROUND(n / d * 100, 2) on numerics: half away from zero.  The
\* result, a number with two decimals, is returned as a rational.
RoundPercent2(n, d) ==
    LET num == Abs(n) * 10000
        den == Abs(d)
        q   == (2 * num + den) \div (2 * den)
        sgn == IF (n < 0) # (d < 0) THEN -1 ELSE 1
    IN  Rat(sgn * q, 100)

\* -------------------------------------------------------------- sequences
RECURSIVE SumSeq(_)
SumSeq(s) == IF s = <<>> THEN 0 ELSE s[1] + SumSeq(Tail(s))

\* Array.prototype.filter with the predicate given as the set of kept indices
RECURSIVE FilterIdx(_, _, _)
FilterIdx(s, keep, i) ==
    IF i > Len(s) THEN <<>>
    ELSE (IF i \in keep THEN <<s[i]>> ELSE <<>>) \o FilterIdx(s, keep, i + 1)

\* all orderings of a finite set
Perms(S) ==
    { s \in [1..Cardinality(S) -> S] :
        \A i, j \in 1..Cardinality(S) : i # j => s[i] # s[j] }

\* -------------------------------------------------------------- year_week
\* String comparison of two year_week labels (the collation order of
\* 'YYYY-Wdd' strings): lexicographic on year, first and second week digit.
YearWeekLess(a, b) ==
    \/ a[1] < b[1]
    \/ a[1] = b[1] /\ a[2] < b[2]
    \/ a[1] = b[1] /\ a[2] = b[2] /\ a[3] < b[3]

\* actualCurrentWeek.split('-W') followed by parseInt of each part
ParseYear(yw) == yw[1]
ParseWeekNum(yw) == yw[2] * 10 + yw[3]

\* `${year}-W${weekNum.toString().padStart(2, '0')}`
FormatYearWeek(year, weekNum) == <<year, weekNum \div 10, weekNum % 10>>

\* ---------------------------------------------------------------- database
\* The tables the routes read.  No route writes them.
\*   groupid_performance      : set of rows, key (groupid, channel)
\*   skusummary               : groupid -> Some(season), or Null when the
\*                              group has no row (the LEFT JOIN then yields
\*                              a NULL season)
\*   groupid_performance_week : set of rows, key (groupid, channel, year_week)
\*   title                    : groupid -> Some(shopifytitle), or Null when
\*                              the group has no row
\*   sales                    : set of rows, key id
\*   price_change_log         : set of rows, key id
\* The pass-through columns segment, notes, owner, the review dates,
\* recommended_price and stock are copied to the response unchanged and are
\* left out.
\* The exchange:
\*   req     : the body of the request
\*   faults  : the queries the database rejects during this exchange
\*   resp    : the response to the request (NoResponse before it is sent)
\*   again   : the response to the same body posted a second time
\*   listing : the response of POST /get_products to the same body
\*   issued  : the queries the handler that ran last has passed to
\*             db.query, in order
\* The products screen of the frontend:
\*   screen      : the useState values of ProductsScreen and the position of
\*                 loadInitialData
\*   inflight    : the loadProducts calls that await the API, in call order,
\*                 each with the settings its closure captured
\*   lastCall    : the settings of the most recent loadProducts call
\*   lastSettled : the origin and the outcome of the loadProducts call that
\*                 resumed last
VARIABLES groupid_performance, skusummary, groupid_performance_week,
          title, sales, price_change_log,
          req, faults, resp, again, listing, issued,
          screen, inflight, lastCall, lastSettled

tables == <<groupid_performance, skusummary, groupid_performance_week,
            title, sales, price_change_log>>

ui == <<screen, inflight, lastCall, lastSettled>>

vars == <<tables, req, faults, resp, again, listing, issued, ui>>

YearWeeks == { <<2024, 5, 2>>, <<2025, 0, 1>>, <<2025, 0, 2>> }

\* metric columns of a groupid_performance row
CurrentMetrics ==
    { [annual_profit |-> Null, sold_qty |-> Null,
       avg_profit_per_unit |-> Null, avg_gross_margin |-> Null],
      [annual_profit |-> Some(0), sold_qty |-> Some(0),
       avg_profit_per_unit |-> Some(0), avg_gross_margin |-> Some(0)],
      [annual_profit |-> Some(300), sold_qty |-> Some(3),
       avg_profit_per_unit |-> Some(100), avg_gross_margin |-> Some(25)] }

\* metric columns of a groupid_performance_week row
SnapshotMetrics ==
    { [annual_profit |-> Null, sold_qty |-> Some(1),
       avg_profit_per_unit |-> Null],
      [annual_profit |-> Some(0), sold_qty |-> Some(0),
       avg_profit_per_unit |-> Some(0)],
      [annual_profit |-> Some(700), sold_qty |-> Some(2),
       avg_profit_per_unit |-> Some(350)] }

\* metric columns of the row of group g when they are not what varies; the
\* annual profits of different groups differ
GroupMetrics(g) ==
    [annual_profit |-> Some(100 * g), sold_qty |-> Some(g),
     avg_profit_per_unit |-> Some(100), avg_gross_margin |-> Some(25)]
FullSnapshot == CHOOSE m \in SnapshotMetrics : m.annual_profit = Some(700)

ProductRow(g, ch, m, b) ==
    [groupid |-> g, channel |-> ch, brand |-> b,
     annual_profit |-> m.annual_profit, sold_qty |-> m.sold_qty,
     avg_profit_per_unit |-> m.avg_profit_per_unit,
     avg_gross_margin |-> m.avg_gross_margin]

SnapshotRow(g, ch, yw, m) ==
    [groupid |-> g, channel |-> ch, year_week |-> yw,
     annual_profit |-> m.annual_profit, sold_qty |-> m.sold_qty,
     avg_profit_per_unit |-> m.avg_profit_per_unit]

\* a table respects its primary key
UniqueSnapshotKey(T) ==
    \A r1, r2 \in T :
        (r1.groupid = r2.groupid /\ r1.channel = r2.channel
            /\ r1.year_week = r2.year_week) => r1 = r2

\* subsets of S with at most n elements
RECURSIVE SubsetsUpTo(_, _)
SubsetsUpTo(S, n) ==
    IF n = 0 THEN { {} }
    ELSE LET smaller == SubsetsUpTo(S, n - 1)
         IN  smaller \cup { T \cup {x} : T \in smaller, x \in S }

\* tables of at most MaxSnapshots rows drawn from a set of rows
SnapshotTables(rows) ==
    { T \in SubsetsUpTo(rows, MaxSnapshots) : UniqueSnapshotKey(T) }

\* brand and season of a group when they are not what varies
DefaultBrand(g) == IF g % 2 = 1 THEN Some("Nike") ELSE Some("Rieker")
DefaultSeason(g) == IF g % 2 = 1 THEN Some("Summer") ELSE Null

\* req.body of POST /get_products_comparison; an absent field is Null
Bodies ==
    [comparison_period : { Null, Some("week"), Some("month"), Some("year") },
     season_filter : { Null, Some("Summer") },
     season_filter_exclude : { Null, Some("Summer") },
     brand_filter : { Null, Some("UKD"), Some("Rieker") }]

NoResponse == [return_code |-> "NONE"]

\* The inputs of a request are the three tables and the body.  They are drawn
\* from five families, each varying one aspect of the store.

AdjacentWeeks == { <<2025, 0, 1>>, <<2025, 0, 2>> }

\* bodies without season filter
PlainBodies ==
    { b \in Bodies :
        /\ b.season_filter = Null
        /\ b.season_filter_exclude = Null
        /\ b.brand_filter # Some("Rieker") }

\* (1) the current metrics vary: every group has an SHP row with any
\* metrics, the snapshot rows are full rows in two adjacent weeks (rows of
\* another channel for the first group).
InitCurrentMetrics ==
    /\ \E f \in [Groups -> CurrentMetrics] :
         groupid_performance =
            { ProductRow(g, "SHP", f[g], DefaultBrand(g)) : g \in Groups }
    /\ skusummary = [g \in Groups |-> DefaultSeason(g)]
    /\ groupid_performance_week \in
          SnapshotTables(
             { SnapshotRow(g, "SHP", yw, FullSnapshot) :
                 g \in Groups, yw \in AdjacentWeeks }
             \cup { SnapshotRow(1, "AMZ", yw, FullSnapshot) :
                      yw \in AdjacentWeeks })
    /\ req \in PlainBodies

\* (2) the snapshot metrics vary: every group has a full SHP row, the
\* snapshot rows lie in two adjacent weeks with any metrics.
InitSnapshotMetrics ==
    /\ groupid_performance =
          { ProductRow(g, "SHP", GroupMetrics(g), DefaultBrand(g)) :
              g \in Groups }
    /\ skusummary = [g \in Groups |-> DefaultSeason(g)]
    /\ groupid_performance_week \in
          SnapshotTables(
             { SnapshotRow(g, "SHP", yw, m) :
                 g \in Groups, yw \in AdjacentWeeks, m \in SnapshotMetrics })
    /\ req \in PlainBodies

\* (3) the weeks vary: every group has a full SHP row, the snapshot rows are
\* full rows of any group and week (rows of another channel for the first
\* group), the body is any body.
InitWeeks ==
    /\ groupid_performance =
          { ProductRow(g, "SHP", GroupMetrics(g), DefaultBrand(g)) :
              g \in Groups }
    /\ skusummary = [g \in Groups |-> DefaultSeason(g)]
    /\ groupid_performance_week \in
          SnapshotTables(
             { SnapshotRow(g, "SHP", yw, FullSnapshot) :
                 g \in Groups, yw \in YearWeeks }
             \cup { SnapshotRow(1, "AMZ", yw, FullSnapshot) :
                      yw \in YearWeeks })
    /\ req \in Bodies

\* brand and season combinations of a row when the attributes are what varies
Attributes ==
    { <<Null, Null>>, <<Some(""), Some("Summer")>>,
      <<Some("Nike"), Some("Winter")>>, <<Some("Rieker"), Some("Summer")>>,
      <<Some("Rieker"), Null>> }

\* (4) brand and season vary: a group may have no SHP row, the first group
\* may have a row on another channel, the snapshot rows are full rows of the
\* first group in two adjacent weeks, the body is any body.
InitAttributes ==
    /\ \E f \in [Groups -> Attributes \cup {<<>>}], amz \in BOOLEAN :
         /\ groupid_performance =
               { ProductRow(g, "SHP", GroupMetrics(g), f[g][1]) :
                    g \in { h \in Groups : f[h] # <<>> } }
               \cup (IF amz THEN { ProductRow(1, "AMZ", GroupMetrics(1),
                                              Some("Nike")) }
                     ELSE {})
         /\ skusummary =
               [g \in Groups |-> IF f[g] = <<>> THEN Null ELSE f[g][2]]
    /\ groupid_performance_week \in
          SnapshotTables(
             { SnapshotRow(1, "SHP", yw, FullSnapshot) :
                 yw \in AdjacentWeeks })
    /\ req \in Bodies

\* the first and the last week of a history of eighteen weeks
SpanWeeks == { <<2025, 1, 0>>, <<2025, 2, 7>> }

\* (5) a long history: every group has a full SHP row, the snapshot rows are
\* full rows in the first and the last week of the span.
InitMonthSpan ==
    /\ groupid_performance =
          { ProductRow(g, "SHP", GroupMetrics(g), DefaultBrand(g)) :
              g \in Groups }
    /\ skusummary = [g \in Groups |-> DefaultSeason(g)]
    /\ groupid_performance_week \in
          SnapshotTables(
             { SnapshotRow(g, "SHP", yw, FullSnapshot) :
                 g \in Groups, yw \in SpanWeeks })
    /\ req \in PlainBodies

\* the tables only POST /get_product_details reads are empty
NoDetailTables ==
    /\ title = [g \in Groups |-> Null]
    /\ sales = {}
    /\ price_change_log = {}

\* the useState values of ProductsScreen before its first effect runs
\* (products_screen.js lines 17-32); initialPending holds the calls
\* loadInitialData still awaits
InitialScreen ==
    [mounted |-> FALSE,
     products |-> <<>>,
     loading |-> TRUE,
     error |-> Null,
     comparisonMode |-> FALSE,
     comparisonPeriod |-> "week",
     comparisonInfo |-> Null,
     overallStats |-> Null,
     seasonFilter |-> "",
     initialPending |-> {}]

\* the products screen has not been rendered
NotRendered ==
    /\ screen = InitialScreen
    /\ inflight = <<>>
    /\ lastCall = Null
    /\ lastSettled = Null

\* no request has been handled yet
Idle ==
    /\ resp = NoResponse
    /\ again = NoResponse
    /\ listing = NoResponse
    /\ issued = <<>>
    /\ NotRendered

Init ==
    /\ \/ InitCurrentMetrics
       \/ InitSnapshotMetrics
       \/ InitWeeks
       \/ InitAttributes
       \/ InitMonthSpan
    /\ NoDetailTables
    /\ faults = {}
    /\ Idle

\* ------------------------------------------------------- period resolution
\* req.body.comparison_period || 'week'
comparisonPeriod(body) ==
    IF Truthy(body.comparison_period) THEN Val(body.comparison_period)
    ELSE "week"

\* year_week values of the rows of one channel
WeeksOfChannel(ch) ==
    { r.year_week : r \in { x \in groupid_performance_week : x.channel = ch } }

\* currentWeekQuery without its channel condition
currentWeekQuery_AnyChannel ==
    LET W == { r.year_week : r \in groupid_performance_week }
    IN  IF W = {} THEN <<>>
        ELSE << [year_week |->
                   CHOOSE w \in W : \A v \in W : v = w \/ YearWeekLess(v, w)] >>

\* SELECT year_week ... WHERE channel = 'SHP' ORDER BY year_week DESC LIMIT 1
\* (result.rows, a sequence of zero or one row)
currentWeekQuery ==
    LET W == WeeksOfChannel("SHP")
    IN  IF W = {} THEN <<>>
        ELSE << [year_week |->
                   CHOOSE w \in W : \A v \in W : v = w \/ YearWeekLess(v, w)] >>

\* currentWeekResult.rows.length > 0 ? rows[0].year_week : null
actualCurrentWeek ==
    IF Len(currentWeekQuery) > 0 THEN Some(currentWeekQuery[1].year_week)
    ELSE Null

\* SELECT year_week ... WHERE channel = 'SHP' ORDER BY year_week ASC LIMIT 1
earliestWeekQuery ==
    LET W == WeeksOfChannel("SHP")
    IN  IF W = {} THEN <<>>
        ELSE << [year_week |->
                   CHOOSE w \in W : \A v \in W : v = w \/ YearWeekLess(w, v)] >>

\* checkWeekQuery without its channel condition
checkWeekQuery_AnyChannel(week) ==
    Cardinality({ r \in groupid_performance_week : r.year_week = week })

\* SELECT COUNT(*) ... WHERE channel = 'SHP' AND year_week = $1
checkWeekQuery(week) ==
    Cardinality({ r \in groupid_performance_week :
                    r.channel = "SHP" /\ r.year_week = week })

NoComparisonLabel == << "No comparison data available" >>

\* the else branch of line 178 (see below) taken for 'month' as well
MonthResolution_WeekBefore(current) ==
    LET weekNum == ParseWeekNum(current) - 1
    IN  [week |-> Some(FormatYearWeek(ParseYear(current), weekNum)),
         label |-> << "Previous Week" >>]

\* the month branch: the earliest available week, unless it is the current
\* one; the label counts weeks by the week numbers alone
MonthResolution(current) ==
    IF Len(earliestWeekQuery) > 0
    THEN LET earliestWeek == earliestWeekQuery[1].year_week
             weeksBack == ParseWeekNum(current) - ParseWeekNum(earliestWeek)
         IN  IF earliestWeek # current
             THEN [week |-> Some(earliestWeek),
                   label |-> IF weeksBack = 1 THEN << "Last Week" >>
                             ELSE << weeksBack, " weeks ago" >>]
             ELSE [week |-> Null, label |-> NoComparisonLabel]
    ELSE [week |-> Null, label |-> NoComparisonLabel]

\* PreviousWeekCandidate without the rollover
PreviousWeekCandidate_NoRollover(current) ==
    [week |-> Some(FormatYearWeek(ParseYear(current),
                                  ParseWeekNum(current) - 1)),
     label |-> << "Previous Week" >>]

\* the else branch: the week before the current one, week 1 rolling over to
\* week 52 of the year before
PreviousWeekCandidate(current) ==
    LET weekNum == ParseWeekNum(current) - 1
        year == ParseYear(current)
    IN  IF weekNum < 1
        THEN [week |-> Some(FormatYearWeek(year - 1, 52)),
              label |-> << "Previous Week" >>]
        ELSE [week |-> Some(FormatYearWeek(year, weekNum)),
              label |-> << "Previous Week" >>]

\* CheckComparisonWeek without the existence check
CheckComparisonWeek_Unchecked(period, candidate) == candidate

\* for the period 'week' only: drop a candidate week that has no rows
CheckComparisonWeek(period, candidate) ==
    IF period = "week" /\ candidate.week # Null
    THEN IF checkWeekQuery(Val(candidate.week)) > 0 THEN candidate
         ELSE [week |-> Null, label |-> NoComparisonLabel]
    ELSE candidate

\* comparisonWeek and comparisonLabel as they stand at line 208
ResolveComparison(period, current) ==
    CheckComparisonWeek(period,
        IF period = "month" THEN MonthResolution(current)
        ELSE PreviousWeekCandidate(current))

\* ------------------------------------------------------------------ filters
specificBrands ==
    { "Birkenstock", "Rieker", "Lunar", "Crocs", "Hotter", "Skechers" }

\* ss.season of the row LEFT JOINed to a product
SeasonOf(gp) == skusummary[gp.groupid]

\* seasonWhereCondition: season_filter wins over season_filter_exclude; a
\* comparison with a NULL season is not true
seasonWhereCondition(body, gp) ==
    IF Truthy(body.season_filter)
    THEN SeasonOf(gp) # Null /\ SeasonOf(gp) = body.season_filter
    ELSE IF Truthy(body.season_filter_exclude)
         THEN SeasonOf(gp) = Null \/ SeasonOf(gp) # body.season_filter_exclude
         ELSE TRUE

\* brandWhereCondition with a bare NOT IN, which is not true of a NULL brand
brandWhereCondition_BareNotIn(body, gp) ==
    IF Truthy(body.brand_filter)
    THEN IF body.brand_filter = Some("UKD")
         THEN gp.brand # Null /\ Val(gp.brand) \notin specificBrands
         ELSE gp.brand # Null /\ gp.brand = body.brand_filter
    ELSE TRUE

\* brandWhereCondition: 'UKD' is everything outside the named brands
brandWhereCondition(body, gp) ==
    IF Truthy(body.brand_filter)
    THEN IF body.brand_filter = Some("UKD")
         THEN \/ gp.brand = Null
              \/ gp.brand = Some("")
              \/ Val(gp.brand) \notin specificBrands
         ELSE gp.brand # Null /\ gp.brand = body.brand_filter
    ELSE TRUE

\* the rows of groupid_performance both queries select from
current_products(body) ==
    { gp \in groupid_performance :
        /\ gp.channel = "SHP"
        /\ seasonWhereCondition(body, gp)
        /\ brandWhereCondition(body, gp) }

\* ORDER BY annual_profit DESC NULLS LAST: row b must not come before row a
\* when a sorts strictly first.  Rows with equal keys come in any order.
SortsStrictlyBefore(a, b) ==
    \/ a.annual_profit # Null /\ b.annual_profit = Null
    \/ /\ a.annual_profit # Null /\ b.annual_profit # Null
       /\ Val(a.annual_profit) > Val(b.annual_profit)

\* every row sequence the ORDER BY allows for a result set
OrderByAnnualProfit(rows) ==
    { s \in Perms(rows) :
        \A i, j \in 1..Len(s) : i < j => ~SortsStrictlyBefore(s[j], s[i]) }

\* ------------------------------------------------------ current-only path
\* currentOnlyQuery: the result sets the database may return
currentOnlyQuery(body) == OrderByAnnualProfit(current_products(body))

\* currentResult.rows.map(...), lines 270-287
CurrentOnlyProduct(row) ==
    [groupid |-> row.groupid,
     channel |-> row.channel,
     annual_profit |-> OrZero(row.annual_profit),
     sold_qty |-> OrZero(row.sold_qty),
     avg_profit_per_unit |-> OrZero(row.avg_profit_per_unit),
     brand |-> row.brand,
     avg_gross_margin |-> OrZero(row.avg_gross_margin),
     previous_week |-> Null,
     changes |-> Null]

\* overallStats.current, the same expression on both paths
CurrentStats(products) ==
    LET n == Len(products)
    IN  [total_annual_profit |->
            SumSeq([i \in 1..n |-> products[i].annual_profit]),
         total_sold_qty |-> SumSeq([i \in 1..n |-> products[i].sold_qty]),
         avg_profit_per_unit |->
            IF n > 0
            THEN Rat(SumSeq([i \in 1..n |-> products[i].avg_profit_per_unit]),
                     n)
            ELSE RatInt(0),
         avg_gross_margin |->
            IF n > 0
            THEN Rat(SumSeq([i \in 1..n |-> products[i].avg_gross_margin]), n)
            ELSE RatInt(0),
         total_products |-> n]

\* the response of lines 303-316 for one result set
CurrentOnlyResponse(period, current, label, rows) ==
    LET products == [i \in 1..Len(rows) |-> CurrentOnlyProduct(rows[i])]
    IN  [return_code |-> "SUCCESS",
         status |-> 200,
         products |-> products,
         comparison_info |->
            [current_week |-> current,
             comparison_week |-> Null,
             comparison_period |-> period,
             comparison_label |-> label,
             products_with_comparison |-> 0,
             products_without_comparison |-> Len(products),
             total_products |-> Len(products)],
         overall_stats |->
            [current |-> CurrentStats(products), changes |-> Null]]

\* --------------------------------------------------------- comparison path
\* previous_week_data: the snapshot rows of channel 'SHP' at the week $1
previous_week_data(week) ==
    { r \in groupid_performance_week :
        r.channel = "SHP" /\ r.year_week = week }

\* CASE WHEN prev IS NOT NULL THEN cur - prev ELSE NULL END; a NULL operand
\* makes the difference NULL
SqlChange(cur, prev) ==
    IF prev # Null
    THEN IF cur = Null THEN Null ELSE Some(Val(cur) - Val(prev))
    ELSE Null

\* CASE WHEN prev IS NOT NULL AND prev != 0
\*      THEN ROUND((cur - prev) / prev * 100, 2) ELSE NULL END
SqlChangePercent(cur, prev) ==
    IF prev # Null /\ Val(prev) # 0
    THEN IF cur = Null THEN Null
         ELSE Some(RoundPercent2(Val(cur) - Val(prev), Val(prev)))
    ELSE Null

\* one row of the final SELECT: a current product and a matching snapshot
\* row, or NULLs on the snapshot side (pwd = Null) when nothing matches
JoinedRow(cp, pwd) ==
    LET prev_annual_profit ==
            IF pwd = Null THEN Null ELSE Val(pwd).annual_profit
        prev_sold_qty == IF pwd = Null THEN Null ELSE Val(pwd).sold_qty
        prev_avg_profit_per_unit ==
            IF pwd = Null THEN Null ELSE Val(pwd).avg_profit_per_unit
    IN  [groupid |-> cp.groupid,
         channel |-> cp.channel,
         annual_profit |-> cp.annual_profit,
         sold_qty |-> cp.sold_qty,
         avg_profit_per_unit |-> cp.avg_profit_per_unit,
         brand |-> cp.brand,
         avg_gross_margin |-> cp.avg_gross_margin,
         prev_annual_profit |-> prev_annual_profit,
         prev_sold_qty |-> prev_sold_qty,
         prev_avg_profit_per_unit |-> prev_avg_profit_per_unit,
         previous_week |->
            IF pwd = Null THEN Null ELSE Some(Val(pwd).year_week),
         annual_profit_change |->
            SqlChange(cp.annual_profit, prev_annual_profit),
         annual_profit_change_percent |->
            SqlChangePercent(cp.annual_profit, prev_annual_profit),
         sold_qty_change |-> SqlChange(cp.sold_qty, prev_sold_qty),
         sold_qty_change_percent |->
            SqlChangePercent(cp.sold_qty, prev_sold_qty),
         avg_profit_per_unit_change |->
            SqlChange(cp.avg_profit_per_unit, prev_avg_profit_per_unit),
         avg_profit_per_unit_change_percent |->
            SqlChangePercent(cp.avg_profit_per_unit,
                             prev_avg_profit_per_unit)]

\* current_products joined with previous_week_data by an inner join: the
\* products without a matching snapshot row drop out
LeftJoin_InnerJoin(body, week) ==
    UNION { { JoinedRow(cp, Some(r)) :
                r \in { s \in previous_week_data(week) :
                          s.groupid = cp.groupid /\ s.channel = cp.channel } }
          : cp \in current_products(body) }

\* current_products LEFT JOIN previous_week_data ON groupid AND channel
LeftJoin(body, week) ==
    UNION { LET matches == { r \in previous_week_data(week) :
                               r.groupid = cp.groupid
                               /\ r.channel = cp.channel }
            IN  IF matches = {} THEN { JoinedRow(cp, Null) }
                ELSE { JoinedRow(cp, Some(r)) : r \in matches }
          : cp \in current_products(body) }

\* the final query (lines 349-431): the result sets the database may return
comparisonQuery(body, week) == OrderByAnnualProfit(LeftJoin(body, week))

\* JS `parseFloat(x) || 0` on a percent column: null and 0 both give 0
PercentOrZero(o) == IF o = Null THEN RatInt(0) ELSE Val(o)

\* result.rows.map(...), lines 441-474
ComparisonProduct(row) ==
    [groupid |-> row.groupid,
     channel |-> row.channel,
     annual_profit |-> OrZero(row.annual_profit),
     sold_qty |-> OrZero(row.sold_qty),
     avg_profit_per_unit |-> OrZero(row.avg_profit_per_unit),
     brand |-> IF Truthy(row.brand) THEN row.brand ELSE Some(""),
     avg_gross_margin |-> OrZero(row.avg_gross_margin),
     previous_week |->
        IF row.prev_annual_profit # Null
        THEN Some([annual_profit |-> OrZero(row.prev_annual_profit),
                   sold_qty |-> OrZero(row.prev_sold_qty),
                   avg_profit_per_unit |->
                       OrZero(row.prev_avg_profit_per_unit),
                   year_week |-> row.previous_week])
        ELSE Null,
     changes |->
        IF row.annual_profit_change # Null
        THEN Some([annual_profit_change |-> OrZero(row.annual_profit_change),
                   annual_profit_change_percent |->
                       PercentOrZero(row.annual_profit_change_percent),
                   sold_qty_change |-> OrZero(row.sold_qty_change),
                   sold_qty_change_percent |->
                       PercentOrZero(row.sold_qty_change_percent),
                   avg_profit_per_unit_change |->
                       OrZero(row.avg_profit_per_unit_change),
                   avg_profit_per_unit_change_percent |->
                       PercentOrZero(row.avg_profit_per_unit_change_percent)])
        ELSE Null]

\* products.filter(p => p.previous_week !== null).length
productsWithComparison(products) ==
    Cardinality({ i \in 1..Len(products) : products[i].previous_week # Null })

\* productsWithoutComparison counted from the products without changes
productsWithoutComparison_ByChanges(products) ==
    Cardinality({ i \in 1..Len(products) : products[i].changes = Null })

\* products.length - productsWithComparison
productsWithoutComparison(products) ==
    Len(products) - productsWithComparison(products)

\* productsWithPreviousData filtered on changes instead of previous_week
productsWithPreviousData_ByChanges(products) ==
    FilterIdx(products,
              { i \in 1..Len(products) : products[i].changes # Null }, 1)

\* products.filter(p => p.previous_week)
productsWithPreviousData(products) ==
    FilterIdx(products,
              { i \in 1..Len(products) : products[i].previous_week # Null }, 1)

\* overallStats.previous as initialised at lines 491-497
ZeroPreviousStats ==
    [total_annual_profit |-> 0, total_sold_qty |-> 0,
     avg_profit_per_unit |-> RatInt(0), avg_gross_margin |-> RatInt(0),
     total_products |-> 0]

\* overallStats.changes as initialised at lines 498-508
ZeroChanges ==
    [total_annual_profit_change |-> 0,
     total_annual_profit_change_percent |-> RatInt(0),
     total_sold_qty_change |-> 0,
     total_sold_qty_change_percent |-> RatInt(0),
     avg_profit_per_unit_change |-> RatInt(0),
     avg_profit_per_unit_change_percent |-> RatInt(0),
     avg_gross_margin_change |-> RatInt(0),
     avg_gross_margin_change_percent |-> RatInt(0),
     total_products_change |-> 0]

\* overallStats.previous after lines 513-517, withPrev non-empty
PreviousStats(withPrev) ==
    LET n == Len(withPrev)
        prev(i) == Val(withPrev[i].previous_week)
    IN  [total_annual_profit |->
            SumSeq([i \in 1..n |-> prev(i).annual_profit]),
         total_sold_qty |-> SumSeq([i \in 1..n |-> prev(i).sold_qty]),
         avg_profit_per_unit |->
            Rat(SumSeq([i \in 1..n |-> prev(i).avg_profit_per_unit]), n),
         avg_gross_margin |-> RatInt(0),
         total_products |-> n]

\* previous !== 0 ? ((current - previous) / previous * 100) : 0
AggregatePercent(current, previous) ==
    IF ~RatIsZero(previous)
    THEN RatPercent(RatSub(current, previous), previous)
    ELSE RatInt(0)

\* overallStats.changes after lines 519-532
AggregateChanges(current, previous) ==
    [total_annual_profit_change |->
        current.total_annual_profit - previous.total_annual_profit,
     total_annual_profit_change_percent |->
        AggregatePercent(RatInt(current.total_annual_profit),
                         RatInt(previous.total_annual_profit)),
     total_sold_qty_change |->
        current.total_sold_qty - previous.total_sold_qty,
     total_sold_qty_change_percent |->
        AggregatePercent(RatInt(current.total_sold_qty),
                         RatInt(previous.total_sold_qty)),
     avg_profit_per_unit_change |->
        RatSub(current.avg_profit_per_unit, previous.avg_profit_per_unit),
     avg_profit_per_unit_change_percent |->
        AggregatePercent(current.avg_profit_per_unit,
                         previous.avg_profit_per_unit),
     avg_gross_margin_change |-> RatInt(0),
     avg_gross_margin_change_percent |-> RatInt(0),
     total_products_change |->
        current.total_products - previous.total_products]

\* OverallStats whose previous average divides by the number of all
\* products, as if the products without snapshot counted as zero
OverallStats_ZeroPadded(products) ==
    LET current == CurrentStats(products)
        withPrev == productsWithPreviousData(products)
        previous ==
            [PreviousStats(withPrev) EXCEPT
                !.avg_profit_per_unit =
                    Rat(SumSeq([i \in 1..Len(withPrev) |->
                           Val(withPrev[i].previous_week).avg_profit_per_unit]),
                        Len(products))]
    IN  IF Len(withPrev) > 0
        THEN [current |-> current,
              previous |-> previous,
              changes |-> AggregateChanges(current, previous)]
        ELSE [current |-> current,
              previous |-> ZeroPreviousStats,
              changes |-> ZeroChanges]

\* overallStats of the comparison path, lines 481-533
OverallStats(products) ==
    LET current == CurrentStats(products)
        withPrev == productsWithPreviousData(products)
    IN  IF Len(withPrev) > 0
        THEN [current |-> current,
              previous |-> PreviousStats(withPrev),
              changes |-> AggregateChanges(current, PreviousStats(withPrev))]
        ELSE [current |-> current,
              previous |-> ZeroPreviousStats,
              changes |-> ZeroChanges]

\* the response of lines 536-549 for one result set
ComparisonResponse(period, current, week, label, rows) ==
    LET products == [i \in 1..Len(rows) |-> ComparisonProduct(rows[i])]
    IN  [return_code |-> "SUCCESS",
         status |-> 200,
         products |-> products,
         comparison_info |->
            [current_week |-> current,
             comparison_week |-> week,
             comparison_period |-> period,
             comparison_label |-> label,
             products_with_comparison |-> productsWithComparison(products),
             products_without_comparison |->
                productsWithoutComparison(products),
             total_products |-> Len(products)],
         overall_stats |-> OverallStats(products)]

\* the catch block, lines 554-563
ErrorResponse ==
    [return_code |-> "DATABASE_ERROR",
     status |-> 500,
     message |-> "Failed to retrieve products comparison from database"]

\* ------------------------------------------------------------ the handler
\* router.post('/'): every response the handler can send for a request body
\* on the present contents of the tables
Responses(body) ==
    IF actualCurrentWeek = Null
    THEN { ErrorResponse }
    ELSE LET period == comparisonPeriod(body)
             current == Val(actualCurrentWeek)
             resolved == ResolveComparison(period, current)
         IN  IF resolved.week = Null
             THEN { CurrentOnlyResponse(period, current, resolved.label, rows)
                    : rows \in currentOnlyQuery(body) }
             ELSE { ComparisonResponse(period, current, Val(resolved.week),
                                       resolved.label, rows)
                    : rows \in comparisonQuery(body, Val(resolved.week)) }

\* the db.query calls of the handler, in order, when none of them rejects:
\* the current week, for 'month' the earliest week, for 'week' the existence
\* check, then one of the two fetches.  The throw of line 126 ends the plan.
QueryPlan(body) ==
    IF actualCurrentWeek = Null
    THEN << "currentWeekQuery" >>
    ELSE LET period == comparisonPeriod(body)
             current == Val(actualCurrentWeek)
             resolved == ResolveComparison(period, current)
         IN  << "currentWeekQuery" >>
             \o (IF period = "month" THEN << "earliestWeekQuery" >> ELSE <<>>)
             \o (IF period = "week" THEN << "checkWeekQuery" >> ELSE <<>>)
             \o (IF resolved.week = Null THEN << "currentOnlyQuery" >>
                 ELSE << "comparisonQuery" >>)

\* the position of the first query of a plan that the database rejects, 0
\* when it rejects none
FirstRejected(plan, F) ==
    IF \E i \in 1..Len(plan) : plan[i] \in F
    THEN CHOOSE i \in 1..Len(plan) :
            /\ plan[i] \in F
            /\ \A j \in 1..(i - 1) : plan[j] \notin F
    ELSE 0

\* Outcomes with a fetch whose rejection is caught on the spot and read as an
\* empty result
Outcomes_EmptyOnRejectedFetch(body, F) ==
    LET plan == QueryPlan(body)
        i == FirstRejected(plan, F)
    IN  IF i = 0
        THEN { [response |-> r, issued |-> plan] : r \in Responses(body) }
        ELSE IF plan[i] \in { "currentOnlyQuery", "comparisonQuery" }
             THEN { [response |->
                        CurrentOnlyResponse(comparisonPeriod(body),
                                            Val(actualCurrentWeek),
                                            NoComparisonLabel, <<>>),
                     issued |-> SubSeq(plan, 1, i)] }
             ELSE { [response |-> ErrorResponse,
                     issued |-> SubSeq(plan, 1, i)] }

\* router.post('/') with its try and catch: what the handler sends and the
\* queries it issues, for a body and the set F of queries the database
\* rejects.  A rejected await throws, nothing more is issued, and the catch
\* block sends the error response.
Outcomes(body, F) ==
    LET plan == QueryPlan(body)
        i == FirstRejected(plan, F)
    IN  IF i = 0
        THEN { [response |-> r, issued |-> plan] : r \in Responses(body) }
        ELSE { [response |-> ErrorResponse, issued |-> SubSeq(plan, 1, i)] }

\* the request is answered
Post ==
    /\ resp = NoResponse
    /\ \E o \in Outcomes(req, faults) :
         /\ resp' = o.response
         /\ issued' = o.issued
    /\ again' = NoResponse
    /\ UNCHANGED <<ui, tables, req, faults, listing>>

\* the same body is posted once more, the tables being as they were
PostAgain ==
    /\ resp # NoResponse
    /\ again = NoResponse
    /\ \E o \in Outcomes(req, faults) :
         /\ again' = o.response
         /\ issued' = o.issued
    /\ UNCHANGED <<ui, tables, req, faults, resp, listing>>

\* the exchange is over; the server keeps nothing of it
Finish ==
    /\ resp # NoResponse \/ listing # NoResponse
    /\ resp' = NoResponse
    /\ again' = NoResponse
    /\ listing' = NoResponse
    /\ issued' = <<>>
    /\ UNCHANGED <<ui, tables, req, faults>>

Next == Post \/ PostAgain \/ Finish

Spec == Init /\ [][Next]_vars

\* ------------------------------------------------------- rejected queries
\* the five queries of get_products_comparison.js
ComparisonQueries ==
    { "currentWeekQuery", "earliestWeekQuery", "checkWeekQuery",
      "currentOnlyQuery", "comparisonQuery" }

\* a store with snapshot rows of the first group in any weeks, a body
\* without filters, and any set of queries the database rejects
InitFaults ==
    /\ groupid_performance =
          { ProductRow(g, "SHP", GroupMetrics(g), DefaultBrand(g)) :
              g \in Groups }
    /\ skusummary = [g \in Groups |-> DefaultSeason(g)]
    /\ groupid_performance_week \in
          SnapshotTables(
             { SnapshotRow(1, "SHP", yw, FullSnapshot) : yw \in YearWeeks })
    /\ NoDetailTables
    /\ req \in PlainBodies
    /\ faults \in SUBSET ComparisonQueries
    /\ Idle

NextFaults == Post \/ Finish

SpecFaults == InitFaults /\ [][NextFaults]_vars

\* =============================================================== get_brands
\* dashboard_backend/routes/get_brands.js

\* the body {} of a request without fields
EmptyBody == <<>>

\* String.prototype.toLowerCase on the brand names of the model
toLowerCase(str) ==
    CASE str = "Birkenstock" -> "birkenstock"
      [] str = "Rieker" -> "rieker"
      [] str = "Lunar" -> "lunar"
      [] str = "Crocs" -> "crocs"
      [] str = "CROCS" -> "crocs"
      [] str = "Hotter" -> "hotter"
      [] str = "Skechers" -> "skechers"
      [] str = "Nike" -> "nike"
      [] str = "Puma" -> "puma"
      [] OTHER -> str

\* brand column values of the SHP rows when the brand options are computed
BrandValues ==
    { Null, Some(""), Some("Nike"), Some("Rieker"), Some("rieker"),
      Some("CROCS"), Some("Hotter") }

\* brand column values of a row on another channel
OtherChannelBrands == { Some("Puma"), Some("Lunar") }

\* a store for the brand options: a group has no SHP row or one with any
\* brand value, the first group may have a row on another channel; the
\* database answers the query or rejects it
InitBrands ==
    /\ \E f \in [Groups -> {<<>>} \cup { <<b>> : b \in BrandValues }],
          amz \in {<<>>} \cup { <<b>> : b \in OtherChannelBrands } :
         groupid_performance =
            { ProductRow(g, "SHP", GroupMetrics(g), f[g][1]) :
                 g \in { h \in Groups : f[h] # <<>> } }
            \cup (IF amz # <<>>
                  THEN { ProductRow(1, "AMZ", GroupMetrics(1), amz[1]) }
                  ELSE {})
    /\ skusummary = [g \in Groups |-> DefaultSeason(g)]
    /\ groupid_performance_week = {}
    /\ NoDetailTables
    /\ req = EmptyBody
    /\ faults \in { {}, { "brandsQuery" } }
    /\ Idle

\* SELECT DISTINCT brand ... WHERE channel = 'SHP' AND brand IS NOT NULL
\* AND brand != '', mapped to the brand names (allBrands).  The names are
\* only searched with some(), so their order is left out.
allBrands ==
    { Val(r.brand) :
        r \in { x \in groupid_performance :
                  x.channel = "SHP" /\ x.brand # Null /\ x.brand # Some("") } }

\* the specificBrands array of get_brands.js
specificBrandsList ==
    << "Birkenstock", "Rieker", "Lunar", "Crocs", "Hotter", "Skechers" >>

\* BrandMatches comparing the strings as they are
BrandMatches_CaseSensitive(dbBrand, brand) == dbBrand = brand

\* dbBrand.toLowerCase() === brand.toLowerCase()
BrandMatches(dbBrand, brand) == toLowerCase(dbBrand) = toLowerCase(brand)

\* specificBrands.filter(brand => allBrands.some(...))
availableSpecificBrands ==
    SelectSeq(specificBrandsList,
              LAMBDA brand : \E dbBrand \in allBrands :
                                BrandMatches(dbBrand, brand))

\* allBrands.some(brand => !specificBrands.some(...))
hasUKDBrands ==
    \E brand \in allBrands :
        ~ \E i \in DOMAIN specificBrandsList :
              BrandMatches(specificBrandsList[i], brand)

\* ['All', ...availableSpecificBrands] and the push of 'UKD'
brands ==
    << "All" >> \o availableSpecificBrands
    \o (IF hasUKDBrands THEN << "UKD" >> ELSE <<>>)

\* the response of lines 87-91
BrandsResponse ==
    [return_code |-> "SUCCESS",
     status |-> 200,
     brands |-> brands,
     total_count |-> Len(brands)]

\* the catch block, lines 93-99
BrandsErrorResponse ==
    [return_code |-> "ERROR",
     status |-> 500,
     message |-> "Failed to retrieve brands from database"]

\* router.post('/') of get_brands.js
PostBrands ==
    /\ resp = NoResponse
    /\ resp' = IF "brandsQuery" \in faults THEN BrandsErrorResponse
               ELSE BrandsResponse
    /\ issued' = << "brandsQuery" >>
    /\ UNCHANGED <<ui, tables, req, faults, again, listing>>

NextBrands == PostBrands \/ Finish

SpecBrands == InitBrands /\ [][NextBrands]_vars

\* ====================================================== get_product_details
\* dashboard_backend/routes/get_product_details.js

\* largest number of price_change_log rows of the first group
MaxPriceChanges == 3

\* `price_limit = 5, price_offset = 0` of the destructuring, LIMIT 20 of
\* priceQuery, LIMIT 12 of weeklyQuery, LIMIT 50 of the sales queries
DefaultPriceLimit == 5
DefaultPriceOffset == 0
PriceQueryLimit == 20
WeeklyLimit == 12
SalesLimit == 50

\* the group ids 1..NumGroups stand for non-empty strings; this one stands
\* for the empty string '', which is no group
EmptyGroupid == 0

\* req.body of POST /get_product_details; an absent field is Null
DetailBodies ==
    [groupid : { Null, Some(EmptyGroupid) } \cup { Some(g) : g \in Groups },
     price_limit : { Null, Some(1), Some(2) },
     price_offset : { Null, Some(1) }]

\* the sets of queries the database rejects during one request
DetailFaults ==
    { {}, { "productQuery" }, { "skuQuery" }, { "titleQuery" },
      { "weeklyQuery" }, { "salesQuery" }, { "salesQuery", "salesQueryAlt" },
      { "countQuery" }, { "priceQuery" }, { "priceQuery", "countQuery" },
      { "priceQuery", "fallbackQuery1" },
      { "priceQuery", "fallbackQuery1", "fallbackQuery2" },
      { "priceQuery", "fallbackQuery1", "fallbackQuery2", "fallbackQuery3" },
      { "priceQuery", "fallbackQuery1", "fallbackQuery2", "fallbackQuery3",
        "fallbackQuery4" } }

\* n price changes of group g, with different dates
PriceRows(g, n) ==
    { [groupid |-> g, id |-> 10 * g + k, date |-> k] : k \in 1..n }

\* a store for the deep fetch: every group but the last has an SHP row, the
\* last one a row on another channel only; the first group has a title, two
\* weeks of history and any number of price changes; every group has a sale
InitDetails ==
    /\ groupid_performance =
          { ProductRow(g, IF g < NumGroups THEN "SHP" ELSE "AMZ",
                       GroupMetrics(g), DefaultBrand(g)) : g \in Groups }
    /\ skusummary = [g \in Groups |-> DefaultSeason(g)]
    /\ groupid_performance_week =
          { SnapshotRow(1, "SHP", yw, FullSnapshot) : yw \in AdjacentWeeks }
          \cup { SnapshotRow(1, "AMZ", <<2024, 5, 2>>, FullSnapshot) }
    /\ title = [g \in Groups |-> IF g = 1 THEN Some("Sandal") ELSE Null]
    /\ sales = { [groupid |-> g, id |-> g, solddate |-> g,
                  soldprice |-> Some(500)] : g \in Groups }
    /\ \E n \in 0..MaxPriceChanges :
         price_change_log = PriceRows(1, n) \cup PriceRows(NumGroups, 1)
    /\ req \in DetailBodies
    /\ faults \in DetailFaults
    /\ Idle

\* the first n elements of a sequence (LIMIT n)
Take(seq, n) == SubSeq(seq, 1, IF n < Len(seq) THEN n ELSE Len(seq))

\* LIMIT limit OFFSET offset
Page(seq, limit, offset) ==
    SubSeq(seq, offset + 1,
           IF offset + limit < Len(seq) THEN offset + limit ELSE Len(seq))

\* ORDER BY column DESC on rows that differ in the column
OrderedDesc(rows, column) ==
    CHOOSE seq \in Perms(rows) :
        \A i, j \in DOMAIN seq : i < j => seq[i][column] > seq[j][column]

\* MissingGroupid testing for an absent field only
MissingGroupid_AbsentOnly(body) == body.groupid = Null

\* !groupid: the field is absent or the empty string
MissingGroupid(body) ==
    body.groupid = Null \/ body.groupid = Some(EmptyGroupid)

\* productQuery: WHERE gp.groupid = $1 AND gp.channel = 'SHP'
productQuery(groupid) ==
    { gp \in groupid_performance :
        gp.groupid = groupid /\ gp.channel = "SHP" }

\* skuQuery and `skuResult.rows.length > 0 ? skuResult.rows[0] : null`,
\* reduced to the season column
skuDetails(groupid) ==
    IF groupid \in DOMAIN skusummary /\ skusummary[groupid] # Null
    THEN Some([season |-> skusummary[groupid]])
    ELSE Null

\* titleQuery and `rows.length > 0 ? rows[0].shopifytitle : null`; a
\* rejected query leaves titleResult at { rows: [] }
shopify_title(groupid, F) ==
    IF "titleQuery" \in F THEN Null ELSE title[groupid]

\* weeklyQuery: the SHP history of the group, latest week first, LIMIT 12
weeklyQuery(groupid) ==
    LET rows == { r \in groupid_performance_week :
                    r.groupid = groupid /\ r.channel = "SHP" }
        seq == CHOOSE q \in Perms(rows) :
                  \A i, j \in DOMAIN q :
                      i < j => YearWeekLess(q[j].year_week, q[i].year_week)
    IN  Take([i \in DOMAIN seq |->
                [year_week |-> seq[i].year_week,
                 annual_profit |-> OrZero(seq[i].annual_profit),
                 sold_qty |-> OrZero(seq[i].sold_qty),
                 avg_profit_per_unit |-> OrZero(seq[i].avg_profit_per_unit)]],
             WeeklyLimit)

\* salesQuery (ORDER BY solddate DESC), salesQueryAlt (ORDER BY id DESC) when
\* it is rejected, { rows: [] } when both are
salesResult(groupid, F) ==
    LET rows == { r \in sales : r.groupid = groupid }
    IN  IF "salesQuery" \notin F
        THEN Take(OrderedDesc(rows, "solddate"), SalesLimit)
        ELSE IF "salesQueryAlt" \notin F
             THEN Take(OrderedDesc(rows, "id"), SalesLimit)
             ELSE <<>>

\* the price queries in the order they are tried
PriceQueries ==
    << "priceQuery", "fallbackQuery1", "fallbackQuery2", "fallbackQuery3",
       "fallbackQuery4" >>

\* the price queries issued: up to and including the first one that is not
\* rejected
PriceQueriesIssued(F) ==
    SubSeq(PriceQueries, 1,
           IF \E i \in DOMAIN PriceQueries : PriceQueries[i] \notin F
           THEN CHOOSE i \in DOMAIN PriceQueries :
                   /\ PriceQueries[i] \notin F
                   /\ \A j \in 1..(i - 1) : PriceQueries[j] \in F
           ELSE Len(PriceQueries))

\* priceResult.rows, every result the database may return: priceQuery
\* orders by the date and has LIMIT 20 without OFFSET; the first three
\* fallbacks order by a date column and page with price_limit and
\* price_offset; the fourth pages without ORDER BY; when all are rejected
\* priceResult stays { rows: [] }
priceResult(groupid, limit, offset, F) ==
    LET rows == { r \in price_change_log : r.groupid = groupid }
        byDate == OrderedDesc(rows, "date")
        last == PriceQueriesIssued(F)[Len(PriceQueriesIssued(F))]
    IN  IF last \in F THEN { <<>> }
        ELSE IF last = "priceQuery" THEN { Take(byDate, PriceQueryLimit) }
        ELSE IF last = "fallbackQuery4"
             THEN { Page(seq, limit, offset) : seq \in Perms(rows) }
             ELSE { Page(byDate, limit, offset) }

\* countQuery and `parseInt(countResult.rows[0].total) || 0`; 0 when the
\* query is rejected
totalPriceChanges(groupid, F) ==
    IF "countQuery" \in F THEN 0
    ELSE Cardinality({ r \in price_change_log : r.groupid = groupid })

\* the response of lines 358-361 for one result of the price query
DetailsResponse(groupid, limit, offset, F, priceRows) ==
    LET productData == CHOOSE gp \in productQuery(groupid) : TRUE
        totalCount == totalPriceChanges(groupid, F)
    IN  [return_code |-> "SUCCESS",
         status |-> 200,
         product |->
            [groupid |-> productData.groupid,
             channel |-> productData.channel,
             annual_profit |-> OrZero(productData.annual_profit),
             sold_qty |-> OrZero(productData.sold_qty),
             brand |-> IF Truthy(productData.brand) THEN productData.brand
                       ELSE Some(""),
             shopify_title |-> shopify_title(groupid, F),
             sku_details |-> skuDetails(groupid),
             weekly_performance |-> weeklyQuery(groupid),
             price_history |->
                [i \in DOMAIN priceRows |->
                    [id |-> priceRows[i].id, date |-> priceRows[i].date]],
             price_history_pagination |->
                [current_count |-> Len(priceRows),
                 total_count |-> totalCount,
                 has_more |-> (offset + Len(priceRows)) < totalCount,
                 limit |-> limit,
                 offset |-> offset],
             sales_data |-> salesResult(groupid, F)]]

\* the responses of lines 108-111, 127-130 and 365-368
MissingGroupidResponse ==
    [return_code |-> "MISSING_GROUPID", status |-> 400]
ProductNotFoundResponse ==
    [return_code |-> "PRODUCT_NOT_FOUND", status |-> 404]
DetailsErrorResponse ==
    [return_code |-> "DATABASE_ERROR", status |-> 500,
     message |-> "Failed to retrieve product details"]

\* router.post('/') of get_product_details.js: what the handler sends and
\* the queries it issues, for a body and the set F of queries the database
\* rejects.  The rejections of productQuery, skuQuery and weeklyQuery reach
\* the outer catch; those of the title, sales, price and count queries are
\* caught where they happen.
DetailsOutcomes(body, F) ==
    LET limit == IF body.price_limit = Null THEN DefaultPriceLimit
                 ELSE Val(body.price_limit)
        offset == IF body.price_offset = Null THEN DefaultPriceOffset
                  ELSE Val(body.price_offset)
        groupid == Val(body.groupid)
        upToWeekly == << "productQuery", "skuQuery", "titleQuery",
                         "weeklyQuery" >>
        salesQueries == IF "salesQuery" \in F
                        THEN << "salesQuery", "salesQueryAlt" >>
                        ELSE << "salesQuery" >>
    IN  IF MissingGroupid(body)
        THEN { [response |-> MissingGroupidResponse, issued |-> <<>>] }
        ELSE IF "productQuery" \in F
        THEN { [response |-> DetailsErrorResponse,
                issued |-> SubSeq(upToWeekly, 1, 1)] }
        ELSE IF productQuery(groupid) = {}
        THEN { [response |-> ProductNotFoundResponse,
                issued |-> SubSeq(upToWeekly, 1, 1)] }
        ELSE IF "skuQuery" \in F
        THEN { [response |-> DetailsErrorResponse,
                issued |-> SubSeq(upToWeekly, 1, 2)] }
        ELSE IF "weeklyQuery" \in F
        THEN { [response |-> DetailsErrorResponse, issued |-> upToWeekly] }
        ELSE { [response |->
                   DetailsResponse(groupid, limit, offset, F, priceRows),
                issued |-> upToWeekly \o salesQueries
                           \o PriceQueriesIssued(F) \o << "countQuery" >>]
               : priceRows \in priceResult(groupid, limit, offset, F) }

\* the request is answered
PostDetails ==
    /\ resp = NoResponse
    /\ \E o \in DetailsOutcomes(req, faults) :
         /\ resp' = o.response
         /\ issued' = o.issued
    /\ UNCHANGED <<ui, tables, req, faults, again, listing>>

NextDetails == PostDetails \/ Finish

SpecDetails == InitDetails /\ [][NextDetails]_vars

\* ============================================================= get_products
\* dashboard_backend/routes/get_products.js

\* a store whose brands and seasons vary, and any body of the comparison
\* route, which the listing reads without its comparison_period
InitListing ==
    /\ InitAttributes
    /\ NoDetailTables
    /\ faults = {}
    /\ Idle

\* the query of lines 63-92: the SHP rows, with `ss.season = $1` for a
\* season_filter, else `ss.season IS NULL OR ss.season != $1` for a
\* season_filter_exclude; the body's brand_filter is not read.  Every row
\* sequence the ORDER BY allows.
productsQuery(body) ==
    OrderByAnnualProfit(
        { gp \in groupid_performance :
            /\ gp.channel = "SHP"
            /\ IF Truthy(body.season_filter)
               THEN SeasonOf(gp) # Null /\ SeasonOf(gp) = body.season_filter
               ELSE IF Truthy(body.season_filter_exclude)
                    THEN \/ SeasonOf(gp) = Null
                         \/ SeasonOf(gp) # body.season_filter_exclude
                    ELSE TRUE })

\* the response of lines 104-126 for one result set
ProductsResponse(rows) ==
    [return_code |-> "SUCCESS",
     status |-> 200,
     products |->
        [i \in DOMAIN rows |->
            [groupid |-> rows[i].groupid,
             channel |-> rows[i].channel,
             annual_profit |-> OrZero(rows[i].annual_profit),
             sold_qty |-> OrZero(rows[i].sold_qty),
             avg_profit_per_unit |-> OrZero(rows[i].avg_profit_per_unit),
             brand |-> IF Truthy(rows[i].brand) THEN rows[i].brand
                       ELSE Some(""),
             avg_gross_margin |-> OrZero(rows[i].avg_gross_margin)]],
     total_count |-> Len(rows)]

\* the catch block, lines 130-139
ProductsErrorResponse ==
    [return_code |-> "DATABASE_ERROR",
     status |-> 500,
     message |-> "Failed to retrieve products from database"]

\* router.post('/') of get_products.js, posted with the body the comparison
\* route has answered
PostProducts ==
    /\ resp # NoResponse
    /\ listing = NoResponse
    /\ \E rows \in productsQuery(req) :
         listing' = IF "productsQuery" \in faults THEN ProductsErrorResponse
                    ELSE ProductsResponse(rows)
    /\ issued' = << "productsQuery" >>
    /\ UNCHANGED <<ui, tables, req, faults, resp, again>>

NextListing == Post \/ PostProducts \/ Finish

SpecListing == InitListing /\ [][NextListing]_vars

\* ========================================================== products screen
\* dashboard_frontend/src/screens/products_screen.js

\* the number NaN, the result of arithmetic on undefined
NaN == <<0, 0>>

\* filteredProducts.filter(p => p.previous_week)
filteredProductsWithPrevious(filteredProducts) ==
    FilterIdx(filteredProducts,
              { i \in 1..Len(filteredProducts) :
                  filteredProducts[i].previous_week # Null }, 1)

\* currentStats of calculateFilteredStats, lines 236-244
FilteredCurrentStats(filteredProducts) ==
    LET n == Len(filteredProducts)
        p(i) == filteredProducts[i]
    IN  [total_annual_profit |-> SumSeq([i \in 1..n |-> p(i).annual_profit]),
         total_sold_qty |-> SumSeq([i \in 1..n |-> p(i).sold_qty]),
         avg_profit_per_unit |->
            IF n > 0
            THEN Rat(SumSeq([i \in 1..n |-> p(i).avg_profit_per_unit]), n)
            ELSE RatInt(0),
         avg_gross_margin |->
            IF n > 0
            THEN Rat(SumSeq([i \in 1..n |-> p(i).avg_gross_margin]), n)
            ELSE RatInt(0),
         total_products |-> n]

\* previousStats of calculateFilteredStats, lines 264-269: the object has no
\* avg_gross_margin
FilteredPreviousStats(withPrevious) ==
    LET n == Len(withPrevious)
        prev(i) == Val(withPrevious[i].previous_week)
    IN  [total_annual_profit |->
            SumSeq([i \in 1..n |-> prev(i).annual_profit]),
         total_sold_qty |-> SumSeq([i \in 1..n |-> prev(i).sold_qty]),
         avg_profit_per_unit |->
            Rat(SumSeq([i \in 1..n |-> prev(i).avg_profit_per_unit]), n),
         total_products |-> n]

\* changes of calculateFilteredStats, lines 272-286; the gross margin terms
\* subtract the undefined previousStats.avg_gross_margin
FilteredChanges(current, previous) ==
    [total_annual_profit_change |->
        current.total_annual_profit - previous.total_annual_profit,
     total_annual_profit_change_percent |->
        AggregatePercent(RatInt(current.total_annual_profit),
                         RatInt(previous.total_annual_profit)),
     total_sold_qty_change |->
        current.total_sold_qty - previous.total_sold_qty,
     total_sold_qty_change_percent |->
        AggregatePercent(RatInt(current.total_sold_qty),
                         RatInt(previous.total_sold_qty)),
     avg_profit_per_unit_change |->
        RatSub(current.avg_profit_per_unit, previous.avg_profit_per_unit),
     avg_profit_per_unit_change_percent |->
        AggregatePercent(current.avg_profit_per_unit,
                         previous.avg_profit_per_unit),
     avg_gross_margin_change |-> NaN,
     avg_gross_margin_change_percent |-> NaN,
     total_products_change |->
        current.total_products - previous.total_products]

\* calculateFilteredStats (lines 233-293) for the filtered products and the
\* comparison mode of the screen
calculateFilteredStats(filteredProducts, comparisonMode) ==
    LET currentStats == FilteredCurrentStats(filteredProducts)
        withPrevious == filteredProductsWithPrevious(filteredProducts)
    IN  IF Len(filteredProducts) = 0 THEN Null
        ELSE IF ~comparisonMode \/ Len(withPrevious) = 0
        THEN Some([current |-> currentStats,
                   previous |-> Null,
                   changes |-> Null])
        ELSE Some([current |-> currentStats,
                   previous |-> Some(FilteredPreviousStats(withPrevious)),
                   changes |->
                      Some(FilteredChanges(
                              currentStats,
                              FilteredPreviousStats(withPrevious)))])

\* largest number of loadProducts calls that await the API at one time
MaxInFlight == 2

\* the store behind the screen: two SHP products, the first a Summer product
\* with snapshot rows in two adjacent weeks, the second without season, so
\* that the Winter filter selects no product
InitScreen ==
    /\ groupid_performance =
          { ProductRow(g, "SHP", GroupMetrics(g), DefaultBrand(g)) :
              g \in Groups }
    /\ skusummary = [g \in Groups |-> IF g = 1 THEN Some("Summer") ELSE Null]
    /\ groupid_performance_week =
          { SnapshotRow(1, "SHP", yw, FullSnapshot) : yw \in AdjacentWeeks }
    /\ NoDetailTables
    /\ req = EmptyBody
    /\ faults = {}
    /\ Idle

\* comparisonMode, comparisonPeriod and seasonFilter as a render's closure
\* holds them
Settings(s) ==
    [comparisonMode |-> s.comparisonMode,
     comparisonPeriod |-> s.comparisonPeriod,
     seasonFilter |-> s.seasonFilter]

\* the payload loadProducts sends (lines 70-81, 87): season_filter when the
\* season filter is set, comparison_period in comparison mode
requestPayload(call) ==
    [comparison_period |->
        IF call.comparisonMode THEN Some(call.comparisonPeriod) ELSE Null,
     season_filter |->
        IF call.seasonFilter # "" THEN Some(call.seasonFilter) ELSE Null,
     season_filter_exclude |-> Null,
     brand_filter |-> Null]

\* the result of an API function when no response is received
ConnectionError ==
    [success |-> FALSE,
     error |-> "Unable to connect to server. Please check your connection."]

\* getProductsComparison: the result for a response of the route
ComparisonResult(response) ==
    IF response.return_code = "SUCCESS"
    THEN [success |-> TRUE,
          products |-> response.products,
          comparisonInfo |-> response.comparison_info,
          overallStats |-> response.overall_stats]
    ELSE [success |-> FALSE, error |-> response.message]

\* getProducts: the result for a response of the route
ProductsResult(response) ==
    IF response.return_code = "SUCCESS"
    THEN [success |-> TRUE,
          products |-> response.products,
          totalCount |-> response.total_count]
    ELSE [success |-> FALSE, error |-> response.message]

\* the results the awaited API call of a loadProducts call can resolve to
ApiResults(call) ==
    (IF call.comparisonMode
     THEN { ComparisonResult(r) : r \in Responses(requestPayload(call)) }
     ELSE { ProductsResult(ProductsResponse(rows)) :
              rows \in productsQuery(requestPayload(call)) })
    \cup { ConnectionError }

\* basicStats of the non-comparison mode, lines 91-103
basicStats(products) ==
    [current |-> FilteredCurrentStats(products),
     previous |-> Null,
     changes |-> Null]

\* loadProducts after its await (lines 82-116): the state updates for a
\* result, with the comparison mode the call captured
loadProductsResumed(s, call, result) ==
    LET stats ==
            IF call.comparisonMode
            THEN [s EXCEPT
                    !.comparisonInfo =
                        IF result.success THEN Some(result.comparisonInfo)
                        ELSE @,
                    !.overallStats =
                        IF result.success THEN Some(result.overallStats)
                        ELSE @]
            ELSE [s EXCEPT
                    !.comparisonInfo = Null,
                    !.overallStats =
                        IF result.success
                        THEN Some(basicStats(result.products))
                        ELSE Null]
    IN  IF result.success
        THEN [stats EXCEPT !.products = result.products]
        ELSE [stats EXCEPT !.error = Some(result.error)]

\* loadInitialData after Promise.all: the finally block runs once neither
\* call is pending
InitialDataAwaited(s, done) ==
    LET pending == s.initialPending \ {done}
    IN  [s EXCEPT !.initialPending = pending,
                  !.loading = IF done \in s.initialPending /\ pending = {}
                              THEN FALSE ELSE @]

\* a call of loadProducts with the settings of the render it belongs to
loadProducts(s, origin) ==
    /\ Len(inflight) < MaxInFlight
    /\ inflight' = Append(inflight, [settings |-> Settings(s),
                                     origin |-> origin])
    /\ lastCall' = Some(Settings(s))

\* the mount effect (lines 35-37): loadInitialData up to its await.  The
\* reload effect also runs on mount and finds no products.
Mount ==
    /\ ~screen.mounted
    /\ screen' = [screen EXCEPT !.mounted = TRUE,
                                !.loading = TRUE,
                                !.error = Null,
                                !.initialPending = {"products", "owners"}]
    /\ loadProducts(screen, "initial")
    /\ UNCHANGED <<tables, req, faults, resp, again, listing, issued,
                   lastSettled>>

\* loadOwners resumes; a failure is only logged
OwnersAnswer ==
    /\ "owners" \in screen.initialPending
    /\ screen' = InitialDataAwaited(screen, "owners")
    /\ UNCHANGED <<tables, req, faults, resp, again, listing, issued,
                   inflight, lastCall, lastSettled>>

\* the API answers one of the pending loadProducts calls, in any order
ProductsAnswer ==
    \E i \in DOMAIN inflight :
       \E result \in ApiResults(inflight[i].settings) :
          /\ screen' =
                LET resumed == loadProductsResumed(screen,
                                                   inflight[i].settings,
                                                   result)
                IN  IF inflight[i].origin = "initial"
                    THEN InitialDataAwaited(resumed, "products")
                    ELSE resumed
          /\ inflight' = [j \in 1..(Len(inflight) - 1) |->
                            IF j < i THEN inflight[j] ELSE inflight[j + 1]]
          /\ lastSettled' = Some([origin |-> inflight[i].origin,
                                  success |-> result.success])
          /\ UNCHANGED <<tables, req, faults, resp, again, listing, issued,
                         lastCall>>

\* the controls are rendered: the screen shows neither the spinner nor the
\* error (lines 379-403)
ControlsRendered ==
    screen.mounted /\ ~screen.loading /\ screen.error = Null

\* the reload effect (lines 40-44) after a change of a dependency: the new
\* render's loadProducts is called if products are loaded
ReloadEffect(changed) ==
    /\ screen' = changed
    /\ IF Len(changed.products) > 0
       THEN loadProducts(changed, "effect")
       ELSE UNCHANGED <<inflight, lastCall>>
    /\ UNCHANGED <<tables, req, faults, resp, again, listing, issued,
                   lastSettled>>

\* the comparison button: setComparisonMode(!comparisonMode)
ToggleComparisonMode ==
    /\ ControlsRendered
    /\ ReloadEffect([screen EXCEPT !.comparisonMode = ~@])

\* the period select, rendered in comparison mode
SelectComparisonPeriod ==
    /\ ControlsRendered
    /\ screen.comparisonMode
    /\ \E period \in {"week", "month"} \ {screen.comparisonPeriod} :
          ReloadEffect([screen EXCEPT !.comparisonPeriod = period])

\* the Summer and Winter buttons: the season is set, or cleared if it is
\* the active one
ToggleSeasonFilter ==
    /\ ControlsRendered
    /\ \E season \in {"Summer", "Winter"} :
          ReloadEffect([screen EXCEPT
                          !.seasonFilter = IF @ = season THEN "" ELSE season])

\* the 'Try Again' button of the error state: onClick={loadProducts}
TryAgain ==
    /\ screen.mounted
    /\ ~screen.loading
    /\ screen.error # Null
    /\ loadProducts(screen, "retry")
    /\ UNCHANGED <<tables, req, faults, resp, again, listing, issued,
                   screen, lastSettled>>

NextScreen ==
    \/ Mount
    \/ OwnersAnswer
    \/ ProductsAnswer
    \/ ToggleComparisonMode
    \/ SelectComparisonPeriod
    \/ ToggleSeasonFilter
    \/ TryAgain

SpecScreen == InitScreen /\ [][NextScreen]_vars

\* ================================================================ properties
Answered == resp # NoResponse
Success == Answered /\ resp.return_code = "SUCCESS"
\* a successful response that carries a comparison week
NonDegraded == Success /\ resp.comparison_info.comparison_week # Null

\* a field of a JSON object that is null or missing
Nullish(obj, field) == field \notin DOMAIN obj \/ obj[field] = Null

ProductIndices == DOMAIN resp.products
WithPrevious == { i \in ProductIndices : resp.products[i].previous_week # Null }
ReturnedIds == { resp.products[i].groupid : i \in ProductIndices }

\* sum of f over a finite set of indices
RECURSIVE SumOver(_, _)
SumOver(f, S) ==
    IF S = {} THEN 0
    ELSE LET x == CHOOSE y \in S : TRUE
         IN  f[x] + SumOver(f, S \ {x})

\* a snapshot row exists for the group on channel 'SHP' at the week of the
\* response's comparison
SnapshotExists(groupid) ==
    /\ resp.comparison_info.comparison_week # Null
    /\ \E r \in groupid_performance_week :
         /\ r.groupid = groupid
         /\ r.channel = "SHP"
         /\ r.year_week = resp.comparison_info.comparison_week

\* C1: in every successful response, a product's previous_week is non-null
\* exactly when a snapshot row exists for (its groupid, 'SHP', the comparison
\* week), and a product without previous_week has no changes either.
C1_PreviousIffSnapshot ==
    Success =>
        \A i \in ProductIndices :
            LET p == resp.products[i]
            IN  /\ (p.previous_week # Null) <=> SnapshotExists(p.groupid)
                /\ (p.previous_week = Null) => (p.changes = Null)

\* C2: whenever the previous value of a delta is exactly zero, the matching
\* *_change_percent of the response is null (per product and in the
\* aggregate), never 0.
C2_ZeroPreviousPercentNull ==
    NonDegraded =>
        /\ \A i \in WithPrevious :
             LET p == resp.products[i]
                 prev == Val(p.previous_week)
             IN  p.changes # Null =>
                   /\ (prev.annual_profit = 0) =>
                        (Val(p.changes).annual_profit_change_percent = Null)
                   /\ (prev.sold_qty = 0) =>
                        (Val(p.changes).sold_qty_change_percent = Null)
                   /\ (prev.avg_profit_per_unit = 0) =>
                        (Val(p.changes).avg_profit_per_unit_change_percent
                            = Null)
        /\ LET os == resp.overall_stats
           IN  os.previous.total_products > 0 =>
                 /\ (os.previous.total_annual_profit = 0) =>
                      (os.changes.total_annual_profit_change_percent = Null)
                 /\ (os.previous.total_sold_qty = 0) =>
                      (os.changes.total_sold_qty_change_percent = Null)
                 /\ RatIsZero(os.previous.avg_profit_per_unit) =>
                      (os.changes.avg_profit_per_unit_change_percent = Null)

\* C3: in a non-degraded response the previous aggregate is built from the
\* products with a previous_week only: the totals are the sums of their
\* previous_week values and the average divides by their number.
C3_PreviousFromSubset ==
    NonDegraded =>
        LET prev(i) == Val(resp.products[i].previous_week)
            os == resp.overall_stats
        IN  /\ os.previous.total_annual_profit =
                  SumOver([i \in WithPrevious |-> prev(i).annual_profit],
                          WithPrevious)
            /\ os.previous.total_sold_qty =
                  SumOver([i \in WithPrevious |-> prev(i).sold_qty],
                          WithPrevious)
            /\ WithPrevious # {} =>
                  os.previous.avg_profit_per_unit =
                     Rat(SumOver([i \in WithPrevious |->
                                    prev(i).avg_profit_per_unit],
                                 WithPrevious),
                         Cardinality(WithPrevious))

\* a non-degraded response where only part of the products has a snapshot,
\* with a non-zero previous value
C3_Witness ==
    /\ NonDegraded
    /\ WithPrevious # {}
    /\ WithPrevious # ProductIndices
    /\ resp.overall_stats.previous.total_annual_profit > 0

\* C4: in every successful response the coverage counters add up to
\* total_products, which is the length of the products array.
C4_CountersAddUp ==
    Success =>
        LET ci == resp.comparison_info
        IN  /\ ci.products_with_comparison + ci.products_without_comparison
                  = ci.total_products
            /\ ci.total_products = Len(resp.products)

\* a response with products on both sides of the coverage count
C4_Witness ==
    /\ NonDegraded
    /\ resp.comparison_info.products_with_comparison > 0
    /\ resp.comparison_info.products_without_comparison > 0

\* C5: in every non-degraded response overall_stats.previous.total_products
\* is the number of products with a non-null previous_week, zero included,
\* and so equals products_with_comparison.
C5_PreviousCount ==
    NonDegraded =>
        /\ resp.overall_stats.previous.total_products
              = Cardinality(WithPrevious)
        /\ resp.overall_stats.previous.total_products
              = resp.comparison_info.products_with_comparison

\* a non-degraded response with a product that has a previous_week but no
\* changes, next to one that has neither
C5_Witness ==
    /\ NonDegraded
    /\ \E i \in WithPrevious : resp.products[i].changes = Null
    /\ WithPrevious # ProductIndices

\* C6: the reported current_week is the greatest year_week of the SHP rows
\* of groupid_performance_week.
C6_CurrentWeekIsMax ==
    Success =>
        LET cw == resp.comparison_info.current_week
        IN  /\ cw \in WeeksOfChannel("SHP")
            /\ \A w \in WeeksOfChannel("SHP") : ~YearWeekLess(cw, w)

\* a response on a store that holds a later week of another channel
C6_Witness ==
    /\ Success
    /\ \E r \in groupid_performance_week :
         /\ r.channel # "SHP"
         /\ YearWeekLess(resp.comparison_info.current_week, r.year_week)

\* C7: with no SHP row in the snapshot store the request still succeeds:
\* SUCCESS, the filtered current products, no previous_week and no changes,
\* and the label of a missing comparison.
C7_NoDataDegrades ==
    (Answered /\ WeeksOfChannel("SHP") = {}) =>
        /\ resp.return_code = "SUCCESS"
        /\ ReturnedIds = { gp.groupid : gp \in current_products(req) }
        /\ \A i \in ProductIndices :
             /\ resp.products[i].previous_week = Null
             /\ resp.products[i].changes = Null
        /\ resp.comparison_info.comparison_label = NoComparisonLabel

\* C8: with exactly one period in the store, a week or month request gets
\* SUCCESS without any comparison: null previous_week and changes on every
\* product, a null comparison_week, the no-comparison label, and neither
\* previous nor changes in overall_stats.
C8_OnePeriodDegrades ==
    (/\ Answered
     /\ Cardinality(WeeksOfChannel("SHP")) = 1
     /\ comparisonPeriod(req) \in {"week", "month"}) =>
        /\ resp.return_code = "SUCCESS"
        /\ \A i \in ProductIndices :
             /\ resp.products[i].previous_week = Null
             /\ resp.products[i].changes = Null
        /\ resp.comparison_info.comparison_week = Null
        /\ resp.comparison_info.comparison_label = NoComparisonLabel
        /\ Nullish(resp.overall_stats, "previous")
        /\ Nullish(resp.overall_stats, "changes")

\* a week request answered on a one-period store that has products, the
\* week before being present on another channel only
C8_Witness ==
    /\ Answered
    /\ Cardinality(WeeksOfChannel("SHP")) = 1
    /\ req.comparison_period = Some("week")
    /\ ProductIndices # {}
    /\ WeeksOfChannel("AMZ") # {}

\* C9: the same body posted twice on unchanged tables gets the same
\* response.
C9_Idempotent ==
    again # NoResponse => again = resp

\* C10: with brand_filter 'UKD' a product (that passes the season filter) is
\* returned exactly when its brand is null, empty or none of the six named
\* brands; with another non-empty brand_filter only products of that brand
\* are returned.
C10_BrandFilter ==
    Success =>
        /\ req.brand_filter = Some("UKD") =>
             \A gp \in groupid_performance :
                (gp.channel = "SHP" /\ seasonWhereCondition(req, gp)) =>
                   ( gp.groupid \in ReturnedIds
                     <=> \/ gp.brand = Null
                         \/ gp.brand = Some("")
                         \/ gp.brand \notin
                              { Some("Birkenstock"), Some("Rieker"),
                                Some("Lunar"), Some("Crocs"),
                                Some("Hotter"), Some("Skechers") } )
        /\ (Truthy(req.brand_filter) /\ req.brand_filter # Some("UKD")) =>
             \A id \in ReturnedIds :
                \E gp \in groupid_performance :
                   /\ gp.groupid = id
                   /\ gp.channel = "SHP"
                   /\ gp.brand = req.brand_filter

\* a 'UKD' response that returns a product without brand and leaves out a
\* Rieker product
C10_Witness ==
    /\ Success
    /\ req.brand_filter = Some("UKD")
    /\ \E gp \in groupid_performance :
         gp.channel = "SHP" /\ gp.brand = Null /\ gp.groupid \in ReturnedIds
    /\ \E gp \in groupid_performance :
         /\ gp.channel = "SHP" /\ gp.brand = Some("Rieker")
         /\ gp.groupid \notin ReturnedIds

\* ------------------------------------------------------- period resolution
\* the elements of a sequence
Range(seq) == { seq[i] : i \in DOMAIN seq }

\* the week before a week Y-Www: Y-W(ww-1) with two digits when ww > 1,
\* (Y-1)-W52 when ww = 1
WeekBefore(yw) ==
    LET ww == 10 * yw[2] + yw[3]
    IN  IF ww > 1 THEN << yw[1], (ww - 1) \div 10, (ww - 1) % 10 >>
        ELSE << yw[1] - 1, 5, 2 >>

\* C18: for comparison_period 'week' or none, the comparison week of a
\* successful response is the week before the current week (the week
\* number minus one in two digits, week 52 of the year before for week 1)
\* whenever that week has SHP rows, and null only when it has none.
C18_WeekCandidate ==
    (Success /\ req.comparison_period \in { Null, Some("week") }) =>
        LET ci == resp.comparison_info
            candidate == WeekBefore(ci.current_week)
        IN  /\ ci.comparison_week \in { Null, candidate }
            /\ ci.comparison_week = candidate
                  <=> candidate \in WeeksOfChannel("SHP")

\* the current week is week 1 and the comparison went to week 52 of the year
\* before
C18_Witness ==
    /\ Success
    /\ req.comparison_period \in { Null, Some("week") }
    /\ resp.comparison_info.current_week = <<2025, 0, 1>>
    /\ resp.comparison_info.comparison_week = <<2024, 5, 2>>

\* the least year_week of the SHP snapshot rows
EarliestShpWeek ==
    CHOOSE w \in WeeksOfChannel("SHP") :
        \A v \in WeeksOfChannel("SHP") : v = w \/ YearWeekLess(w, v)

\* C19: for comparison_period 'month' the comparison week is the earliest
\* SHP year_week of the snapshot store when that is before the current week
\* (with 2025-W10 as the earliest and 2025-W27 as the current week the label
\* is '17 weeks ago'); when the earliest week is the current week there is
\* no comparison week.
C19_MonthEarliest ==
    (Success /\ req.comparison_period = Some("month")) =>
        LET ci == resp.comparison_info
        IN  /\ EarliestShpWeek # ci.current_week =>
                 /\ ci.comparison_week = EarliestShpWeek
                 /\ YearWeekLess(ci.comparison_week, ci.current_week)
            /\ EarliestShpWeek = ci.current_week =>
                 ci.comparison_week = Null
            /\ (/\ EarliestShpWeek = <<2025, 1, 0>>
                /\ ci.current_week = <<2025, 2, 7>>) =>
                 ci.comparison_label = << 17, " weeks ago" >>

\* the month comparison of the scenario: 2025-W27 against 2025-W10
C19_Witness ==
    /\ Success
    /\ req.comparison_period = Some("month")
    /\ resp.comparison_info.current_week = <<2025, 2, 7>>
    /\ resp.comparison_info.comparison_week = <<2025, 1, 0>>
    /\ resp.comparison_info.comparison_label = << 17, " weeks ago" >>

\* C20: on the week path the joined query is issued only after the
\* existence check and only if the candidate week has an SHP snapshot row;
\* if it has none, the current-only query is issued instead and the
\* response has a null comparison_week and the label 'No comparison data
\* available'.
C20_JoinedOnlyIfRows ==
    (Answered /\ req.comparison_period \in { Null, Some("week") }) =>
        IF Success
        THEN LET ci == resp.comparison_info
                 hasRows ==
                    \E r \in groupid_performance_week :
                       /\ r.channel = "SHP"
                       /\ r.year_week = WeekBefore(ci.current_week)
             IN  /\ "comparisonQuery" \in Range(issued) =>
                      /\ hasRows
                      /\ \E i, j \in DOMAIN issued :
                            /\ i < j
                            /\ issued[i] = "checkWeekQuery"
                            /\ issued[j] = "comparisonQuery"
                 /\ ~hasRows =>
                      /\ "comparisonQuery" \notin Range(issued)
                      /\ issued[Len(issued)] = "currentOnlyQuery"
                      /\ ci.comparison_week = Null
                      /\ ci.comparison_label = NoComparisonLabel
                      /\ \A i \in ProductIndices :
                            resp.products[i].previous_week = Null
        ELSE "comparisonQuery" \notin Range(issued)

\* a week request falls back although the candidate week has a row, on
\* another channel
C20_Witness ==
    /\ Success
    /\ req.comparison_period \in { Null, Some("week") }
    /\ resp.comparison_info.comparison_week = Null
    /\ ProductIndices # {}
    /\ issued = << "currentWeekQuery", "checkWeekQuery", "currentOnlyQuery" >>
    /\ \E r \in groupid_performance_week :
          /\ r.channel = "AMZ"
          /\ r.year_week = WeekBefore(resp.comparison_info.current_week)

\* ------------------------------------------------------------- get_brands
\* the brand column values of the SHP rows
ShpBrands ==
    { r.brand : r \in { x \in groupid_performance : x.channel = "SHP" } }

AllowList ==
    { "Birkenstock", "Rieker", "Lunar", "Crocs", "Hotter", "Skechers" }

\* C11: a successful get_brands response has 'All' as its first option; an
\* allow-listed brand is among the options exactly when some SHP product has
\* that brand, letter case ignored; 'UKD' is among them only if some SHP
\* product has a brand outside the allow-list; total_count is the number of
\* options.
C11_BrandOptions ==
    Success =>
        /\ resp.brands[1] = "All"
        /\ \A b \in AllowList :
              b \in Range(resp.brands)
              <=> \E o \in ShpBrands :
                     o # Null /\ toLowerCase(Val(o)) = toLowerCase(b)
        /\ "UKD" \in Range(resp.brands) =>
              \E o \in ShpBrands : o # Null /\ Val(o) \notin AllowList
        /\ resp.total_count = Len(resp.brands)

\* options computed on a store whose only Rieker product is spelled in lower
\* case, with a Nike product, and with a Lunar product on another channel
C11_Witness ==
    /\ Success
    /\ resp.brands = << "All", "Rieker", "UKD" >>
    /\ Some("Rieker") \notin ShpBrands
    /\ \E r \in groupid_performance :
          r.channel = "AMZ" /\ r.brand = Some("Lunar")

\* ------------------------------------------------------- rejected queries
\* a query the handler issued was rejected by the database
QueryRejected == \E i \in DOMAIN issued : issued[i] \in faults

\* C12: when a query issued by get_products_comparison is rejected (the
\* current-week lookup, the earliest-week lookup, the existence check, the
\* current-only fetch or the joined fetch), the response is the error
\* response: DATABASE_ERROR with status 500 and without products; the
\* rejected query is the last one issued.
C12_RejectedQueryFails ==
    (Answered /\ QueryRejected) =>
        /\ resp.return_code = "DATABASE_ERROR"
        /\ resp.status = 500
        /\ "products" \notin DOMAIN resp
        /\ "overall_stats" \notin DOMAIN resp
        /\ issued[Len(issued)] \in faults
        /\ \A i \in 1..(Len(issued) - 1) : issued[i] \notin faults

\* the joined fetch is rejected after the lookup and the existence check
\* went through
C12_Witness ==
    /\ Answered
    /\ issued = << "currentWeekQuery", "checkWeekQuery", "comparisonQuery" >>
    /\ "comparisonQuery" \in faults

\* ----------------------------------------------------- get_product_details
\* C13: get_product_details sends no partial response: when a query it
\* issued is rejected (product, SKU summary, title, weekly history, sales,
\* price-change log, price-change count) the response is not SUCCESS.
C13_NoPartialResponse ==
    (Answered /\ QueryRejected) => resp.return_code # "SUCCESS"

\* C14: a missing or empty groupid gets MISSING_GROUPID with status 400 and
\* no query is issued; a groupid without SHP row in groupid_performance gets
\* PRODUCT_NOT_FOUND with status 404 and nothing is issued after the product
\* lookup (the lookup itself being answered by the database).
C14_ValidationAndNotFound ==
    Answered =>
        /\ req.groupid \in { Null, Some(EmptyGroupid) } =>
              /\ resp.return_code = "MISSING_GROUPID"
              /\ resp.status = 400
              /\ issued = <<>>
        /\ (/\ req.groupid \notin { Null, Some(EmptyGroupid) }
            /\ "productQuery" \notin faults
            /\ ~ \E gp \in groupid_performance :
                    gp.groupid = Val(req.groupid) /\ gp.channel = "SHP") =>
              /\ resp.return_code = "PRODUCT_NOT_FOUND"
              /\ resp.status = 404
              /\ issued = << "productQuery" >>

\* the details of a group that has a row on another channel only are
\* requested
C14_Witness ==
    /\ Answered
    /\ resp.return_code = "PRODUCT_NOT_FOUND"
    /\ \E gp \in groupid_performance :
          gp.groupid = Val(req.groupid) /\ gp.channel = "AMZ"

\* price_offset of the request, 0 when absent
RequestedOffset ==
    IF req.price_offset = Null THEN 0 ELSE Val(req.price_offset)

\* price_limit of the request, 5 when absent
RequestedLimit ==
    IF req.price_limit = Null THEN 5 ELSE Val(req.price_limit)

\* the price_change_log rows of the requested group
PriceLogOfRequest ==
    { r \in price_change_log : r.groupid = Val(req.groupid) }

\* C15: in every successful response has_more is true exactly when
\* price_offset plus the number of price_history entries returned is less
\* than the number of price_change_log rows of the group.
C15_HasMore ==
    Success =>
        ( resp.product.price_history_pagination.has_more
          <=> RequestedOffset + Len(resp.product.price_history)
                 < Cardinality(PriceLogOfRequest) )

\* C16: a successful response carries at most price_limit price_history
\* entries, and they are the entries of the group's price-change log, latest
\* first, from position price_offset on.
C16_PriceHistoryPage ==
    Success =>
        LET history == resp.product.price_history
            n == Cardinality(PriceLogOfRequest)
        IN  /\ Len(history) <= RequestedLimit
            /\ \A i \in DOMAIN history :
                  \E r \in PriceLogOfRequest :
                     /\ r.id = history[i].id
                     /\ r.date = n - (RequestedOffset + i) + 1

\* ------------------------------------------------------------ get_products
\* C17: for the same season_filter, season_filter_exclude and brand_filter
\* and the same data, get_products returns exactly the products that
\* get_products_comparison returns.
C17_SameProducts ==
    (Success /\ listing # NoResponse /\ listing.return_code = "SUCCESS") =>
        { listing.products[i].groupid : i \in DOMAIN listing.products }
           = ReturnedIds

\* ------------------------------------------------ products of the joined query
\* C21: when a comparison week is resolved, the response returns one product
\* for every current product that passes the request's season and brand
\* filters, the same product ids as the current-only query gives for the same
\* filters, whichever products have a snapshot; a product without a snapshot
\* row at the comparison week has previous_week null.
C21_SameIdsAsCurrentOnly ==
    NonDegraded =>
        /\ \E rows \in currentOnlyQuery(req) :
              /\ Len(rows) = Len(resp.products)
              /\ { rows[i].groupid : i \in DOMAIN rows } = ReturnedIds
        /\ \A i \in ProductIndices :
              ~SnapshotExists(resp.products[i].groupid)
                 => resp.products[i].previous_week = Null

\* a comparison response that returns a product with a snapshot and one
\* without, the second with previous_week null
C21_Witness ==
    /\ NonDegraded
    /\ \E i, j \in ProductIndices :
          /\ SnapshotExists(resp.products[i].groupid)
          /\ resp.products[i].previous_week # Null
          /\ ~SnapshotExists(resp.products[j].groupid)
          /\ resp.products[j].previous_week = Null

\* ------------------------------------------------------- aggregate statistics
\* C22: in every response that carries a comparison week, overall_stats.current
\* is computed over all returned products (sums of annual_profit and sold_qty,
\* means of avg_profit_per_unit and avg_gross_margin, the count), and the
\* aggregate changes are the differences of the two aggregates: current minus
\* previous for total_annual_profit, total_sold_qty and avg_profit_per_unit.
C22_AggregateDeltas ==
    NonDegraded =>
        LET n == Len(resp.products)
            stats == resp.overall_stats
            mean(total) == IF n > 0 THEN Rat(total, n) ELSE RatInt(0)
        IN  /\ stats.current.total_products = n
            /\ stats.current.total_annual_profit =
                  SumOver([i \in ProductIndices |->
                              resp.products[i].annual_profit], ProductIndices)
            /\ stats.current.total_sold_qty =
                  SumOver([i \in ProductIndices |->
                              resp.products[i].sold_qty], ProductIndices)
            /\ stats.current.avg_profit_per_unit =
                  mean(SumOver([i \in ProductIndices |->
                                  resp.products[i].avg_profit_per_unit],
                               ProductIndices))
            /\ stats.current.avg_gross_margin =
                  mean(SumOver([i \in ProductIndices |->
                                  resp.products[i].avg_gross_margin],
                               ProductIndices))
            /\ stats.changes.total_annual_profit_change =
                  stats.current.total_annual_profit
                     - stats.previous.total_annual_profit
            /\ stats.changes.total_sold_qty_change =
                  stats.current.total_sold_qty - stats.previous.total_sold_qty
            /\ stats.changes.avg_profit_per_unit_change =
                  RatSub(stats.current.avg_profit_per_unit,
                         stats.previous.avg_profit_per_unit)

\* C27: in every response that carries a comparison week,
\* overall_stats.changes.total_products_change equals
\* comparison_info.products_without_comparison, the difference between the
\* number of returned products and the number of products with previous data,
\* also when no returned product has a snapshot at the comparison week.
C27_ProductsChangeIsWithout ==
    NonDegraded =>
        /\ resp.overall_stats.changes.total_products_change =
              resp.comparison_info.products_without_comparison
        /\ resp.comparison_info.products_without_comparison =
              resp.overall_stats.current.total_products
                 - resp.overall_stats.previous.total_products

\* C26: for comparison_period 'month', whenever a comparison week is
\* resolved, the week count N of the comparison_label ('Last Week' for N = 1,
\* otherwise 'N weeks ago') is an integer of at least 1, also when the
\* earliest week and the current week lie in different years.
C26_WeeksBackPositive ==
    (NonDegraded /\ req.comparison_period = Some("month")) =>
        LET label == resp.comparison_info.comparison_label
        IN  \/ label = << "Last Week" >>
            \/ /\ Len(label) = 2
               /\ label[2] = " weeks ago"
               /\ label[1] >= 1

\* the request with comparison_period 'week' and the other fields unchanged
AsWeekRequest == [req EXCEPT !.comparison_period = Some("week")]

\* C25: for a comparison_period that is neither 'week' nor 'month' the
\* response has the same products, comparison_week, comparison_label,
\* coverage counters and overall_stats as a response to the same request
\* with comparison_period 'week', in every state of the snapshot store.
C25_OtherPeriodAsWeek ==
    (Answered /\ req.comparison_period = Some("year")) =>
        \E week \in Responses(AsWeekRequest) :
            /\ week.return_code = resp.return_code
            /\ Success =>
                 LET a == resp.comparison_info
                     b == week.comparison_info
                 IN  /\ week.products = resp.products
                     /\ b.comparison_week = a.comparison_week
                     /\ b.comparison_label = a.comparison_label
                     /\ b.products_with_comparison = a.products_with_comparison
                     /\ b.products_without_comparison =
                           a.products_without_comparison
                     /\ b.total_products = a.total_products
                     /\ week.overall_stats = resp.overall_stats

\* ------------------------------------------------- brand options as filters
\* the body of a get_products_comparison request that only sets brand_filter
BrandFilterBody(option) ==
    [comparison_period |-> Null,
     season_filter |-> Null,
     season_filter_exclude |-> Null,
     brand_filter |-> Some(option)]

\* C28: every option of a get_brands response other than 'All', sent as
\* brand_filter to get_products_comparison on the same data, selects at least
\* one product.
C28_OptionSelectsProduct ==
    (Success /\ "brands" \in DOMAIN resp) =>
        \A i \in DOMAIN resp.brands :
            resp.brands[i] # "All"
               => current_products(BrandFilterBody(resp.brands[i])) # {}

\* ------------------------------------------------ client-side recomputation
\* a field of the server's overall_stats, null when it is null or missing
StatsField(stats, field) ==
    IF Nullish(stats, field) THEN Null ELSE Some(stats[field])

\* C23: with no owner, tasks-only or search filter, in comparison mode, the
\* aggregate stats the products screen recomputes from the products of a
\* response (current, previous and changes of calculateFilteredStats) equal
\* the overall_stats of that response, also when no returned product has
\* previous-week data.
C23_ClientStatsAsServer ==
    (Success /\ "products" \in DOMAIN resp) =>
        LET client == calculateFilteredStats(resp.products, TRUE)
            server == resp.overall_stats
        IN  /\ client # Null
            /\ Some(Val(client).current) = StatsField(server, "current")
            /\ Val(client).previous = StatsField(server, "previous")
            /\ Val(client).changes = StatsField(server, "changes")

C30_RetryClearsError ==
    lastSettled = Some([origin |-> "retry", success |-> TRUE])
        => screen.error = Null

====
